---- MODULE Spec2Model ----
(***************************************************************************)
(* ReplyBolt license server (server.js): the license store and the stats   *)
(* file, and the request handlers that issue, verify, cancel, revoke and   *)
(* delete licenses.  Every handler is an async function: it runs           *)
(* atomically from one await to the next, and other requests run in        *)
(* between.  A handler is modelled by one action per await.                *)
(***************************************************************************)
EXTENDS Integers, Sequences, FiniteSets, TLC

(***************************************************************************)
(* Bounds of the model.                                                    *)
(***************************************************************************)
\* Number of requests that can be in flight at the same time.
NProc == 2
\* Number of issue, cancel, revoke and delete requests accepted in one
\* behaviour, when requests are concurrent and when they are sequential.
MaxRequests == 3
MaxRequestsSeq == 4
\* The same, when the clock advances and when writes fail.
MaxRequestsClock == 3
MaxRequestsFault == 2
\* The same, when the server starts on a store of legacy records.
MaxRequestsLegacy == 2
\* Number of durable writes that fail in one behaviour.
MaxFail == 1
\* Number of times the wall clock advances in one behaviour.
MaxTicks == 1

Procs == 1..NProc

\* An absent JSON field (undefined / null).
None == "none"

(***************************************************************************)
(* Wall clock.  A timestamp is a whole number of days since the first of   *)
(* January of BaseYear; Date arithmetic follows ECMAScript's MakeDay.      *)
(***************************************************************************)
BaseYear == 2024

IsLeap(y) == (y % 4 = 0 /\ y % 100 # 0) \/ y % 400 = 0

\* Leap years before year y.
LeapsBefore(y) == ((y - 1) \div 4) - ((y - 1) \div 100) + ((y - 1) \div 400)

\* Day number of the first of January of year y.
YearStart(y) == 365 * (y - BaseYear) + LeapsBefore(y) - LeapsBefore(BaseYear)

DaysInMonth(y, m) ==
    IF m = 2 THEN (IF IsLeap(y) THEN 29 ELSE 28)
    ELSE IF m \in {4, 6, 9, 11} THEN 30 ELSE 31

RECURSIVE DaysBeforeMonth(_, _)
DaysBeforeMonth(y, m) ==
    IF m = 1 THEN 0 ELSE DaysBeforeMonth(y, m - 1) + DaysInMonth(y, m - 1)

\* MakeDay(year, month, date): month is 1-based and may exceed 12, date may
\* exceed the length of the month; both overflow into the following ones.
MakeDay(y, m, d) ==
    LET yy == y + ((m - 1) \div 12)
        mm == ((m - 1) % 12) + 1
    IN  YearStart(yy) + DaysBeforeMonth(yy, mm) + (d - 1)

YearOf(t) == CHOOSE y \in (BaseYear + (t \div 366))..(BaseYear + (t \div 365) + 1) :
                 YearStart(y) <= t /\ t < YearStart(y + 1)

MonthOf(t) ==
    LET y == YearOf(t)
    IN  CHOOSE m \in 1..12 :
            /\ MakeDay(y, m, 1) <= t
            /\ t < MakeDay(y, m, 1) + DaysInMonth(y, m)

DateOf(t) == t - MakeDay(YearOf(t), MonthOf(t), 1) + 1

\* The day the server is started on: 31 January of BaseYear.
StartDay == MakeDay(BaseYear, 1, 31)

SubscriptionTypes == {"monthly", "annual", "lifetime"}

\* Variant of calculateExpiry in which a lifetime license expires on the day
\* it is issued.
calculateExpiry_LifetimeToday(subscriptionType, t) ==
    LET y == YearOf(t)
        m == MonthOf(t)
        d == DateOf(t)
    IN  CASE subscriptionType = "monthly"  -> MakeDay(y, m + 1, d)
          [] subscriptionType = "annual"   -> MakeDay(y + 1, m, d)
          [] subscriptionType = "lifetime" -> MakeDay(y, m, d)
          [] OTHER                         -> MakeDay(y, m + 1, d)

\* Variant of calculateExpiry in which an annual license gets the expiry of a
\* monthly one.
calculateExpiry_AnnualAsMonthly(subscriptionType, t) ==
    LET y == YearOf(t)
        m == MonthOf(t)
        d == DateOf(t)
    IN  CASE subscriptionType = "monthly"  -> MakeDay(y, m + 1, d)
          [] subscriptionType = "annual"   -> MakeDay(y, m + 1, d)
          [] subscriptionType = "lifetime" -> MakeDay(y + 100, m, d)
          [] OTHER                         -> MakeDay(y, m + 1, d)

\* calculateExpiry(subscriptionType), evaluated at time t.
calculateExpiry(subscriptionType, t) ==
    LET y == YearOf(t)
        m == MonthOf(t)
        d == DateOf(t)
    IN  CASE subscriptionType = "monthly"  -> MakeDay(y, m + 1, d)
          [] subscriptionType = "annual"   -> MakeDay(y + 1, m, d)
          [] subscriptionType = "lifetime" -> MakeDay(y + 100, m, d)
          [] OTHER                         -> MakeDay(y, m + 1, d)

(***************************************************************************)
(* Strings that the code takes apart are sequences of one-character        *)
(* strings.                                                                *)
(***************************************************************************)
UpperAlpha == <<"A","B","C","D","E","F","G","H","I","J","K","L","M",
                "N","O","P","Q","R","S","T","U","V","W","X","Y","Z">>
LowerAlpha == <<"a","b","c","d","e","f","g","h","i","j","k","l","m",
                "n","o","p","q","r","s","t","u","v","w","x","y","z">>

IsUpper(c) == \E i \in 1..26 : UpperAlpha[i] = c
IsLower(c) == \E i \in 1..26 : LowerAlpha[i] = c
IsSpace(c) == c \in {" ", "\t"}

toLowerCase(c) ==
    IF IsUpper(c) THEN LowerAlpha[CHOOSE i \in 1..26 : UpperAlpha[i] = c] ELSE c

\* .replace(/([a-z])([A-Z])/g, "$1-$2")
RECURSIVE HyphenateCamel(_)
HyphenateCamel(s) ==
    IF Len(s) < 2 THEN s
    ELSE IF IsLower(s[1]) /\ IsUpper(s[2])
         THEN <<s[1], "-", s[2]>> \o HyphenateCamel(Tail(Tail(s)))
         ELSE <<s[1]>> \o HyphenateCamel(Tail(s))

\* .replace(/\s+/g, "-")
RECURSIVE HyphenateSpaces(_)
HyphenateSpaces(s) ==
    IF s = <<>> THEN s
    ELSE IF IsSpace(s[1])
         THEN IF Len(s) >= 2 /\ IsSpace(s[2])
              THEN HyphenateSpaces(Tail(s))
              ELSE <<"-">> \o HyphenateSpaces(Tail(s))
         ELSE <<s[1]>> \o HyphenateSpaces(Tail(s))

\* Variant of generateExtensionId without the final toLowerCase().
generateExtensionId_KeepsCase(extensionName) ==
    HyphenateSpaces(HyphenateCamel(extensionName))

\* generateExtensionId(extensionName)
generateExtensionId(extensionName) ==
    LET hyphenated == HyphenateSpaces(HyphenateCamel(extensionName))
    IN  [i \in 1..Len(hyphenated) |-> toLowerCase(hyphenated[i])]

ReplyBolt == <<"R","e","p","l","y","B","o","l","t">>
ReplyBoltId == <<"r","e","p","l","y","-","b","o","l","t">>
MyExtension == <<"M","y"," ","E","x","t","e","n","s","i","o","n">>
MyExtensionId == <<"m","y","-","e","x","t","e","n","s","i","o","n">>

\* Extension names an administrator picks in create-license.
ExtensionNames == {ReplyBolt, MyExtension}
\* Extension ids a client sends to /api/verify (<<>>: the field is missing).
ExtensionIds == {ReplyBoltId, MyExtensionId, <<>>}

(***************************************************************************)
(* License keys.                                                           *)
(***************************************************************************)
HexDigits == <<"0","1","2","3","4","5","6","7","8","9","A","B","C","D","E","F">>

\* Outcomes of crypto.randomBytes(8) the model draws from.
RandomBytes == { <<171, 205, 18, 52, 86, 120, 154, 188>>,
                 <<0, 1, 2, 3, 4, 5, 6, 255>> }

\* crypto.randomBytes(8).toString("hex").toUpperCase()
RECURSIVE HexOf(_)
HexOf(bytes) ==
    IF bytes = <<>> THEN <<>>
    ELSE <<HexDigits[(bytes[1] \div 16) + 1], HexDigits[(bytes[1] % 16) + 1]>>
            \o HexOf(Tail(bytes))

RECURSIVE Join(_)
Join(s) == IF s = <<>> THEN "" ELSE s[1] \o Join(Tail(s))

\* Variant of licenseKeyChars in which the last group is cut one character
\* short.
licenseKeyChars_ShortLastGroup(bytes) ==
    LET random == HexOf(bytes)
    IN  <<"R", "B">> \o <<"-">> \o SubSeq(random, 1, 4) \o <<"-">>
            \o SubSeq(random, 5, 8) \o <<"-">> \o SubSeq(random, 9, 12)
            \o <<"-">> \o SubSeq(random, 13, Len(random) - 1)

\* The characters of the key generateLicenseKey() builds from the random bytes.
licenseKeyChars(bytes) ==
    LET random == HexOf(bytes)
    IN  <<"R", "B">> \o <<"-">> \o SubSeq(random, 1, 4) \o <<"-">>
            \o SubSeq(random, 5, 8) \o <<"-">> \o SubSeq(random, 9, 12)
            \o <<"-">> \o SubSeq(random, 13, Len(random))

generateLicenseKey(bytes) == Join(licenseKeyChars(bytes))

Keys == { generateLicenseKey(b) : b \in RandomBytes }

(***************************************************************************)
(* License records and the license collection.  The collection is a JSON   *)
(* object; Object.entries walks it in insertion order, so it is a sequence *)
(* of records, each carrying its key.                                      *)
(***************************************************************************)
NoTime == -1
NoAmount == -1
NoStr == <<>>

HasKey(lics, k) == \E i \in 1..Len(lics) : lics[i].key = k
IndexOf(lics, k) == CHOOSE i \in 1..Len(lics) : lics[i].key = k
Get(lics, k) == lics[IndexOf(lics, k)]

\* licenses[k] = rec: an existing property keeps its place, a new one is last.
Put(lics, k, rec) ==
    IF HasKey(lics, k)
    THEN [lics EXCEPT ![IndexOf(lics, k)] = rec]
    ELSE Append(lics, rec)

\* delete licenses[k]
Remove(lics, k) ==
    LET i == IndexOf(lics, k)
    IN  SubSeq(lics, 1, i - 1) \o SubSeq(lics, i + 1, Len(lics))

ActiveCount(lics) == Cardinality({i \in 1..Len(lics) : lics[i].status = "active"})

Max(a, b) == IF a >= b THEN a ELSE b

ZeroStats == [totalSales |-> 0, monthlyRevenue |-> 0, activeSubscriptions |-> 0]

\* A file: its content, and whether the content is complete JSON.  A file that
\* was opened for writing and not yet written holds nothing parsable.
File(content) == [parsable |-> TRUE, content |-> content]
Unparsable(empty) == [parsable |-> FALSE, content |-> empty]

\* loadLicenses(): the parsed file, {} when reading or parsing fails.
loadLicenses(file) == IF file.parsable THEN file.content ELSE <<>>

\* loadStats(): the parsed file, zeroed stats when reading or parsing fails.
loadStats(file) == IF file.parsable THEN file.content ELSE ZeroStats

(***************************************************************************)
(* Requests.                                                               *)
(***************************************************************************)
Emails == {"a@x.com", "b@x.com"}

\* resource of a PayPal event.  email is what the handler's chain
\* subscriber.email_address || payer.email_address || billing_agreement_id
\* yields, id is resource.id || resource.billing_agreement_id, amount is
\* resource.amount.total in cents.
Resources ==
    { [id |-> "I-1", email |-> "a@x.com", plan_id |-> None, amount |-> NoAmount],
      [id |-> "I-2", email |-> "b@x.com", plan_id |-> "P-yearly", amount |-> 500],
      [id |-> "I-1", email |-> None, plan_id |-> "lifetime-deal", amount |-> NoAmount] }

\* Bodies of create-license requests.
Creates ==
    { [email |-> "a@x.com", subscriptionType |-> None, extensionName |-> ReplyBolt],
      [email |-> "b@x.com", subscriptionType |-> "annual", extensionName |-> MyExtension],
      [email |-> "a@x.com", subscriptionType |-> "lifetime", extensionName |-> MyExtension],
      [email |-> "b@x.com", subscriptionType |-> "weekly", extensionName |-> ReplyBolt],
      [email |-> None, subscriptionType |-> "monthly", extensionName |-> ReplyBolt] }

\* planId.includes(word)
Includes(planId, word) ==
    \/ planId = "P-annual" /\ word = "annual"
    \/ planId = "P-yearly" /\ word = "yearly"
    \/ planId = "lifetime-deal" /\ word = "lifetime"
    \/ planId = word

\* The subscription type the webhook derives from the plan id.
PlanType(plan_id) ==
    LET planId == IF plan_id = None THEN "monthly" ELSE plan_id
    IN  IF Includes(planId, "annual") \/ Includes(planId, "yearly") THEN "annual"
        ELSE IF Includes(planId, "lifetime") THEN "lifetime"
        ELSE "monthly"

\* Prices in cents: 9.99, 99 and 199.
Price(subscriptionType) ==
    IF subscriptionType = "monthly" THEN 999
    ELSE IF subscriptionType = "annual" THEN 9900 ELSE 19900

Reasons == {None, "refund"}

NoReq == [op |-> "idle", licenseKey |-> None, email |-> None,
          subscriptionType |-> None, subscriptionId |-> None,
          extensionName |-> NoStr, extensionId |-> NoStr,
          amount |-> NoAmount, reason |-> None, expiresAt |-> NoTime,
          afterRevoke |-> FALSE, failed |-> None]

NoRes == [code |-> 0, success |-> FALSE, valid |-> FALSE, error |-> None,
          email |-> None, expiresAt |-> NoTime, subscriptionType |-> None,
          extensionName |-> NoStr, licenseKey |-> None, emailSent |-> FALSE]

NoSnapshot == [taken |-> FALSE, owner |-> 0, licFile |-> File(<<>>),
               statsFile |-> File(ZeroStats)]

NoPrev == [op |-> "idle", licenseKey |-> None, code |-> 0, existed |-> FALSE,
           email |-> None,
           subscriptionType |-> None, extensionId |-> NoStr,
           wasActive |-> FALSE, activeSubscriptions |-> 0]

VARIABLES
    licFile,      \* ./data/licenses.json
    statsFile,    \* ./data/stats.json
    now,          \* the wall clock
    pc,           \* per request slot: the await the handler is suspended at
    req,          \* per request slot: the request and the handler's constants
    licenses,     \* per request slot: the handler's local `licenses`
    stats,        \* per request slot: the handler's local `stats`
    wasActive,    \* per request slot: the handler's local `wasActive`
    res,          \* per request slot: the response sent
    accepted,     \* issue, cancel, revoke and delete requests accepted so far
    fails,        \* durable writes that have failed so far
    ticks,        \* clock advances so far
    pre,          \* the files when the only request in flight started
    prev,         \* the issuance or revocation that ran alone just before
    issuedKeys,   \* keys of the issuances answered so far, while nothing but issuances ran
    mutated,      \* a cancel, revoke or delete request has been accepted
    revokedOK     \* per key: "yes" once its revocation was answered with success,
                  \* "reissued" once the key was generated again after that

vars == <<licFile, statsFile, now, pc, req, licenses, stats, wasActive, res,
          accepted, fails, ticks, pre, prev, issuedKeys, mutated, revokedOK>>

Init ==
    /\ licFile = File(<<>>)
    /\ statsFile = File(ZeroStats)
    /\ now = StartDay
    /\ pc = [p \in Procs |-> "idle"]
    /\ req = [p \in Procs |-> NoReq]
    /\ licenses = [p \in Procs |-> <<>>]
    /\ stats = [p \in Procs |-> ZeroStats]
    /\ wasActive = [p \in Procs |-> FALSE]
    /\ res = [p \in Procs |-> NoRes]
    /\ accepted = 0
    /\ fails = 0
    /\ ticks = 0
    /\ pre = NoSnapshot
    /\ prev = NoPrev
    /\ issuedKeys = <<>>
    /\ mutated = FALSE
    /\ revokedOK = [k \in Keys |-> "no"]

(***************************************************************************)
(* Helpers of the actions.                                                 *)
(***************************************************************************)
InFlight(p) == pc[p] \notin {"idle", "done", "hung"}
Quiescent == \A p \in Procs : ~InFlight(p)

\* A request takes the lowest free slot (the slots are interchangeable).
FreeSlot(p) == pc[p] = "idle" /\ \A q \in Procs : q < p => pc[q] # "idle"

\* Bookkeeping when slot p accepts a request.
Accept(p) ==
    /\ pre' = IF Quiescent
              THEN [taken |-> TRUE, owner |-> p, licFile |-> licFile,
                    statsFile |-> statsFile]
              ELSE NoSnapshot
    /\ prev' = IF Quiescent THEN prev ELSE NoPrev

IsIssue(op) == op \in {"webhookIssue", "create"}

\* Bookkeeping when an issuance generates key k.
Reissued(k) == IF revokedOK[k] = "yes" THEN [revokedOK EXCEPT ![k] = "reissued"]
               ELSE revokedOK
IsWebhook(op) == op \in {"webhookIssue", "webhookCancel", "webhookOther"}

NewLicense(r, t, paypalSubscriptionId, manual) ==
    [key |-> r.licenseKey,
     email |-> r.email,
     subscriptionId |-> r.subscriptionId,
     subscriptionType |-> r.subscriptionType,
     status |-> "active",
     createdAt |-> t,
     expiresAt |-> r.expiresAt,
     paypalSubscriptionId |-> paypalSubscriptionId,
     manual |-> manual,
     extensionName |-> r.extensionName,
     extensionId |-> r.extensionId,
     cancelledAt |-> NoTime,
     revokedAt |-> NoTime,
     revocationReason |-> None]

(***************************************************************************)
(* POST /webhook/paypal                                                    *)
(***************************************************************************)
IssueEvents == {"BILLING.SUBSCRIPTION.ACTIVATED", "PAYMENT.SALE.COMPLETED"}
EventTypes == IssueEvents \cup {"BILLING.SUBSCRIPTION.CANCELLED", "PAYMENT.SALE.REFUNDED"}

\* The handler up to its first await, for an activation or a completed sale.
WebhookActivated(p, event_type, resource, bytes, max) ==
    /\ FreeSlot(p)
    /\ event_type \in IssueEvents
    /\ accepted < max
    /\ LET subscriptionType == PlanType(resource.plan_id)
           licenseKey == generateLicenseKey(bytes)
       IN  /\ req' = [req EXCEPT ![p] =
                        [NoReq EXCEPT !.op = "webhookIssue",
                                      !.licenseKey = licenseKey,
                                      !.email = resource.email,
                                      !.subscriptionId = resource.id,
                                      !.subscriptionType = subscriptionType,
                                      !.amount = resource.amount,
                                      !.extensionName = ReplyBolt,
                                      !.extensionId = ReplyBoltId,
                                      !.expiresAt = calculateExpiry(subscriptionType, now)]]
           /\ revokedOK' = Reissued(licenseKey)
    /\ pc' = [pc EXCEPT ![p] = "loadLicenses"]
    /\ accepted' = accepted + 1
    /\ Accept(p)
    /\ UNCHANGED <<licFile, statsFile, now, licenses, stats, wasActive, res,
                   fails, ticks, issuedKeys, mutated>>

\* The handler up to its first await, for a cancelled subscription.
WebhookCancelled(p, event_type, resource, max) ==
    /\ FreeSlot(p)
    /\ accepted < max
    /\ accepted' = accepted + 1
    /\ event_type = "BILLING.SUBSCRIPTION.CANCELLED"
    /\ req' = [req EXCEPT ![p] = [NoReq EXCEPT !.op = "webhookCancel",
                                               !.subscriptionId = resource.id]]
    /\ pc' = [pc EXCEPT ![p] = "loadLicenses"]
    /\ mutated' = TRUE
    /\ issuedKeys' = <<>>
    /\ Accept(p)
    /\ UNCHANGED <<licFile, statsFile, now, licenses, stats, wasActive, res,
                   fails, ticks, revokedOK>>

\* Any other event: neither branch runs, the handler answers 200.
WebhookOther(p, event_type) ==
    /\ FreeSlot(p)
    /\ event_type \notin IssueEvents
    /\ event_type # "BILLING.SUBSCRIPTION.CANCELLED"
    /\ req' = [req EXCEPT ![p] = [NoReq EXCEPT !.op = "webhookOther"]]
    /\ pc' = [pc EXCEPT ![p] = "done"]
    /\ res' = [res EXCEPT ![p] = [NoRes EXCEPT !.code = 200]]
    /\ Accept(p)
    /\ UNCHANGED <<licFile, statsFile, now, licenses, stats, wasActive,
                   accepted, fails, ticks, issuedKeys, mutated, revokedOK>>

\* loadLicenses() has resolved in the issuance branch: the new record is put
\* into the local collection and saveLicenses() is called.
WebhookIssueLoaded(p) ==
    /\ pc[p] = "loadLicenses"
    /\ req[p].op = "webhookIssue"
    /\ licenses' = [licenses EXCEPT ![p] =
                      Put(loadLicenses(licFile), req[p].licenseKey,
                          NewLicense(req[p], now, req[p].subscriptionId, FALSE))]
    /\ pc' = [pc EXCEPT ![p] = "saveLicenses"]
    /\ UNCHANGED <<licFile, statsFile, now, req, stats, wasActive, res,
                   accepted, fails, ticks, pre, prev, issuedKeys, mutated, revokedOK>>

\* The loop of the cancel branch: the first record, in insertion order,
\* whose paypalSubscriptionId is the event's id is cancelled.
RECURSIVE CancelFirst(_, _, _)
CancelFirst(lics, subscriptionId, t) ==
    IF lics = <<>> THEN lics
    ELSE IF lics[1].paypalSubscriptionId = subscriptionId
         THEN <<[lics[1] EXCEPT !.status = "cancelled", !.cancelledAt = t]>>
                  \o Tail(lics)
         ELSE <<lics[1]>> \o CancelFirst(Tail(lics), subscriptionId, t)

\* loadLicenses() has resolved in the cancel branch.
WebhookCancelLoaded(p) ==
    /\ pc[p] = "loadLicenses"
    /\ req[p].op = "webhookCancel"
    /\ licenses' = [licenses EXCEPT ![p] =
                      CancelFirst(loadLicenses(licFile), req[p].subscriptionId, now)]
    /\ pc' = [pc EXCEPT ![p] = "saveLicenses"]
    /\ UNCHANGED <<licFile, statsFile, now, req, stats, wasActive, res,
                   accepted, fails, ticks, pre, prev, issuedKeys, mutated, revokedOK>>

\* loadStats() has resolved in the issuance branch.
WebhookIssueStats(p) ==
    /\ pc[p] = "loadStats"
    /\ req[p].op = "webhookIssue"
    /\ LET s == loadStats(statsFile)
           amount == IF req[p].amount # NoAmount THEN req[p].amount
                     ELSE Price(req[p].subscriptionType)
       IN  stats' = [stats EXCEPT ![p] =
                       [totalSales |-> s.totalSales + 1,
                        activeSubscriptions |-> s.activeSubscriptions + 1,
                        monthlyRevenue |-> s.monthlyRevenue + amount]]
    /\ pc' = [pc EXCEPT ![p] = "saveStats"]
    /\ UNCHANGED <<licFile, statsFile, now, req, licenses, wasActive, res,
                   accepted, fails, ticks, pre, prev, issuedKeys, mutated, revokedOK>>

\* Variant of WebhookCancelStats in which the decrement is not clamped.
WebhookCancelStats_NoClamp(p) ==
    /\ pc[p] = "loadStats"
    /\ req[p].op = "webhookCancel"
    /\ LET s == loadStats(statsFile)
       IN  stats' = [stats EXCEPT ![p] =
                       [s EXCEPT !.activeSubscriptions = s.activeSubscriptions - 1]]
    /\ pc' = [pc EXCEPT ![p] = "saveStats"]
    /\ UNCHANGED <<licFile, statsFile, now, req, licenses, wasActive, res,
                   accepted, fails, ticks, pre, prev, issuedKeys, mutated, revokedOK>>

\* loadStats() has resolved in the cancel branch.
WebhookCancelStats(p) ==
    /\ pc[p] = "loadStats"
    /\ req[p].op = "webhookCancel"
    /\ LET s == loadStats(statsFile)
       IN  stats' = [stats EXCEPT ![p] =
                       [s EXCEPT !.activeSubscriptions =
                                     Max(0, s.activeSubscriptions - 1)]]
    /\ pc' = [pc EXCEPT ![p] = "saveStats"]
    /\ UNCHANGED <<licFile, statsFile, now, req, licenses, wasActive, res,
                   accepted, fails, ticks, pre, prev, issuedKeys, mutated, revokedOK>>

(***************************************************************************)
(* POST /api/verify                                                        *)
(***************************************************************************)
\* The handler up to its first await.  A missing key or extension id is
\* answered at once.
Verify(p, licenseKey, extensionId) ==
    /\ FreeSlot(p)
    /\ req' = [req EXCEPT ![p] = [NoReq EXCEPT !.op = "verify",
                                               !.licenseKey = licenseKey,
                                               !.extensionId = extensionId,
                                               !.afterRevoke =
                                                   /\ licenseKey \in Keys
                                                   /\ revokedOK[licenseKey] = "yes"]]
    /\ IF licenseKey = None
       THEN /\ res' = [res EXCEPT ![p] =
                         [NoRes EXCEPT !.code = 200,
                                       !.error = "No license key provided"]]
            /\ pc' = [pc EXCEPT ![p] = "done"]
       ELSE IF extensionId = NoStr
       THEN /\ res' = [res EXCEPT ![p] =
                         [NoRes EXCEPT !.code = 200,
                                       !.error = "Extension ID is required"]]
            /\ pc' = [pc EXCEPT ![p] = "done"]
       ELSE /\ res' = res
            /\ pc' = [pc EXCEPT ![p] = "loadLicenses"]
    /\ Accept(p)
    /\ UNCHANGED <<licFile, statsFile, now, licenses, stats, wasActive,
                   accepted, fails, ticks, issuedKeys, mutated, revokedOK>>

\* Variant of ExpectedExtensionId in which a record without an extensionId
\* is bound to "reply-bolt" whatever its extensionName.
ExpectedExtensionId_IgnoresName(license) ==
    IF license.extensionId # NoStr THEN license.extensionId ELSE ReplyBoltId

\* The extension id a record is bound to: its extensionId, or for a record
\* without one the id generated from its extensionName (or "ReplyBolt").
ExpectedExtensionId(license) ==
    IF license.extensionId # NoStr THEN license.extensionId
    ELSE generateExtensionId(IF license.extensionName # NoStr
                             THEN license.extensionName ELSE ReplyBolt)

\* Variant of VerifyResult in which the extension id is compared before the
\* key is looked up: an id that no stored license bears is a mismatch.
VerifyResult_ProductFirst(lics, licenseKey, extensionId, t) ==
    IF \A i \in 1..Len(lics) : ExpectedExtensionId(lics[i]) # extensionId
    THEN [NoRes EXCEPT !.code = 200,
                       !.error = "This license is for a different extension"]
    ELSE IF ~HasKey(lics, licenseKey)
    THEN [NoRes EXCEPT !.code = 200, !.error = "Invalid license key"]
    ELSE LET license == Get(lics, licenseKey)
             isValid == license.status = "active" /\ t < license.expiresAt
         IN  IF ExpectedExtensionId(license) # extensionId
             THEN [NoRes EXCEPT !.code = 200,
                                !.error = "This license is for a different extension"]
             ELSE IF isValid
             THEN [NoRes EXCEPT !.code = 200,
                                !.valid = TRUE,
                                !.email = license.email,
                                !.expiresAt = license.expiresAt,
                                !.subscriptionType = license.subscriptionType,
                                !.extensionName = license.extensionName]
             ELSE [NoRes EXCEPT !.code = 200]

\* Variant of VerifyResult in which the status and the expiry are looked at
\* before the extension id.
VerifyResult_StatusFirst(lics, licenseKey, extensionId, t) ==
    IF ~HasKey(lics, licenseKey)
    THEN [NoRes EXCEPT !.code = 200, !.error = "Invalid license key"]
    ELSE LET license == Get(lics, licenseKey)
             isValid == license.status = "active" /\ t < license.expiresAt
         IN  IF ~isValid
             THEN [NoRes EXCEPT !.code = 200]
             ELSE IF ExpectedExtensionId(license) # extensionId
             THEN [NoRes EXCEPT !.code = 200,
                                !.error = "This license is for a different extension"]
             ELSE [NoRes EXCEPT !.code = 200,
                                !.valid = TRUE,
                                !.email = license.email,
                                !.expiresAt = license.expiresAt,
                                !.subscriptionType = license.subscriptionType,
                                !.extensionName = license.extensionName]

\* The body of the answer of /api/verify computed from the loaded collection.
VerifyResult(lics, licenseKey, extensionId, t) ==
    IF ~HasKey(lics, licenseKey)
    THEN [NoRes EXCEPT !.code = 200, !.error = "Invalid license key"]
    ELSE LET license == Get(lics, licenseKey)
             isValid == license.status = "active" /\ t < license.expiresAt
         IN  IF ExpectedExtensionId(license) # extensionId
             THEN [NoRes EXCEPT !.code = 200,
                                !.error = "This license is for a different extension"]
             ELSE IF isValid
             THEN [NoRes EXCEPT !.code = 200,
                                !.valid = TRUE,
                                !.email = license.email,
                                !.expiresAt = license.expiresAt,
                                !.subscriptionType = license.subscriptionType,
                                !.extensionName = license.extensionName]
             ELSE [NoRes EXCEPT !.code = 200]

\* Variant of VerifyLoaded in which the verification of an expired license
\* writes the expiry into the store and takes the license off the active count.
VerifyLoaded_MarksExpired(p) ==
    /\ pc[p] = "loadLicenses"
    /\ req[p].op = "verify"
    /\ licenses' = [licenses EXCEPT ![p] = loadLicenses(licFile)]
    /\ res' = [res EXCEPT ![p] =
                 VerifyResult(loadLicenses(licFile), req[p].licenseKey,
                              req[p].extensionId, now)]
    /\ pc' = [pc EXCEPT ![p] = "done"]
    /\ LET lics == loadLicenses(licFile)
           k == req[p].licenseKey
           expired == /\ HasKey(lics, k)
                      /\ Get(lics, k).status = "active"
                      /\ now >= Get(lics, k).expiresAt
       IN  IF expired
           THEN /\ licFile' = File(Put(lics, k, [Get(lics, k) EXCEPT !.status = "expired"]))
                /\ statsFile' = File([loadStats(statsFile) EXCEPT
                                         !.activeSubscriptions = Max(0, @ - 1)])
           ELSE UNCHANGED <<licFile, statsFile>>
    /\ UNCHANGED <<now, req, stats, wasActive,
                   accepted, fails, ticks, pre, prev, issuedKeys, mutated, revokedOK>>

\* loadLicenses() has resolved: the answer is computed and sent.
VerifyLoaded(p) ==
    /\ pc[p] = "loadLicenses"
    /\ req[p].op = "verify"
    /\ licenses' = [licenses EXCEPT ![p] = loadLicenses(licFile)]
    /\ res' = [res EXCEPT ![p] =
                 VerifyResult(loadLicenses(licFile), req[p].licenseKey,
                              req[p].extensionId, now)]
    /\ pc' = [pc EXCEPT ![p] = "done"]
    /\ UNCHANGED <<licFile, statsFile, now, req, stats, wasActive,
                   accepted, fails, ticks, pre, prev, issuedKeys, mutated, revokedOK>>

(***************************************************************************)
(* POST /api/admin/create-license                                          *)
(***************************************************************************)
\* The handler up to its first await.  subscriptionType defaults to
\* "monthly" and is stored as given.
CreateLicense(p, email, subscriptionType, extensionName, bytes, max) ==
    /\ FreeSlot(p)
    /\ email # None => accepted < max
    /\ LET type == IF subscriptionType = None THEN "monthly" ELSE subscriptionType
           licenseKey == generateLicenseKey(bytes)
       IN  IF email = None
           THEN /\ req' = [req EXCEPT ![p] = [NoReq EXCEPT !.op = "create"]]
                /\ res' = [res EXCEPT ![p] =
                             [NoRes EXCEPT !.code = 400, !.error = "Email required"]]
                /\ pc' = [pc EXCEPT ![p] = "done"]
                /\ revokedOK' = revokedOK
           ELSE /\ req' = [req EXCEPT ![p] =
                             [NoReq EXCEPT !.op = "create",
                                           !.licenseKey = licenseKey,
                                           !.email = email,
                                           !.subscriptionId = "MANUAL-" \o ToString(now),
                                           !.subscriptionType = type,
                                           !.extensionName = extensionName,
                                           !.extensionId = generateExtensionId(extensionName),
                                           !.expiresAt = calculateExpiry(type, now)]]
                /\ res' = res
                /\ pc' = [pc EXCEPT ![p] = "loadLicenses"]
                /\ revokedOK' = Reissued(licenseKey)
    /\ accepted' = IF email = None THEN accepted ELSE accepted + 1
    /\ Accept(p)
    /\ UNCHANGED <<licFile, statsFile, now, licenses, stats, wasActive,
                   fails, ticks, issuedKeys, mutated>>

\* loadLicenses() has resolved.
CreateLoaded(p) ==
    /\ pc[p] = "loadLicenses"
    /\ req[p].op = "create"
    /\ licenses' = [licenses EXCEPT ![p] =
                      Put(loadLicenses(licFile), req[p].licenseKey,
                          NewLicense(req[p], now, None, TRUE))]
    /\ pc' = [pc EXCEPT ![p] = "saveLicenses"]
    /\ UNCHANGED <<licFile, statsFile, now, req, stats, wasActive, res,
                   accepted, fails, ticks, pre, prev, issuedKeys, mutated, revokedOK>>

\* loadStats() has resolved.
CreateStats(p) ==
    /\ pc[p] = "loadStats"
    /\ req[p].op = "create"
    /\ LET s == loadStats(statsFile)
       IN  stats' = [stats EXCEPT ![p] =
                       [s EXCEPT !.totalSales = s.totalSales + 1,
                                 !.activeSubscriptions = s.activeSubscriptions + 1]]
    /\ pc' = [pc EXCEPT ![p] = "saveStats"]
    /\ UNCHANGED <<licFile, statsFile, now, req, licenses, wasActive, res,
                   accepted, fails, ticks, pre, prev, issuedKeys, mutated, revokedOK>>

(***************************************************************************)
(* POST /api/admin/revoke-license                                          *)
(***************************************************************************)
RevokeLicense(p, licenseKey, reason, max) ==
    /\ FreeSlot(p)
    /\ accepted < max
    /\ accepted' = accepted + 1
    /\ req' = [req EXCEPT ![p] = [NoReq EXCEPT !.op = "revoke",
                                               !.licenseKey = licenseKey,
                                               !.reason = reason]]
    /\ IF licenseKey = None
       THEN /\ res' = [res EXCEPT ![p] =
                         [NoRes EXCEPT !.code = 400, !.error = "License key required"]]
            /\ pc' = [pc EXCEPT ![p] = "done"]
       ELSE /\ res' = res
            /\ pc' = [pc EXCEPT ![p] = "loadLicenses"]
    /\ mutated' = TRUE
    /\ issuedKeys' = <<>>
    /\ Accept(p)
    /\ UNCHANGED <<licFile, statsFile, now, licenses, stats, wasActive,
                   fails, ticks, revokedOK>>

\* Variant of RevokeLoaded in which the active count is decremented whatever
\* the status of the record was.
RevokeLoaded_AlwaysDecrement(p) ==
    /\ pc[p] = "loadLicenses"
    /\ req[p].op = "revoke"
    /\ LET lics == loadLicenses(licFile)
           k == req[p].licenseKey
       IN  IF ~HasKey(lics, k)
           THEN /\ res' = [res EXCEPT ![p] =
                             [NoRes EXCEPT !.code = 404, !.error = "License not found"]]
                /\ pc' = [pc EXCEPT ![p] = "done"]
                /\ UNCHANGED <<licenses, wasActive>>
           ELSE /\ wasActive' = [wasActive EXCEPT ![p] = TRUE]
                /\ licenses' = [licenses EXCEPT ![p] =
                      Put(lics, k,
                          [Get(lics, k) EXCEPT
                              !.status = "revoked",
                              !.revokedAt = now,
                              !.revocationReason =
                                  IF req[p].reason # None THEN req[p].reason ELSE @])]
                /\ pc' = [pc EXCEPT ![p] = "saveLicenses"]
                /\ res' = res
    /\ UNCHANGED <<licFile, statsFile, now, req, stats,
                   accepted, fails, ticks, pre, prev, issuedKeys, mutated, revokedOK>>

\* loadLicenses() has resolved: 404 for an unknown key; otherwise wasActive
\* is taken, the record is revoked and saveLicenses() is called.
RevokeLoaded(p) ==
    /\ pc[p] = "loadLicenses"
    /\ req[p].op = "revoke"
    /\ LET lics == loadLicenses(licFile)
           k == req[p].licenseKey
       IN  IF ~HasKey(lics, k)
           THEN /\ res' = [res EXCEPT ![p] =
                             [NoRes EXCEPT !.code = 404, !.error = "License not found"]]
                /\ pc' = [pc EXCEPT ![p] = "done"]
                /\ UNCHANGED <<licenses, wasActive>>
           ELSE /\ wasActive' = [wasActive EXCEPT ![p] = Get(lics, k).status = "active"]
                /\ licenses' = [licenses EXCEPT ![p] =
                      Put(lics, k,
                          [Get(lics, k) EXCEPT
                              !.status = "revoked",
                              !.revokedAt = now,
                              !.revocationReason =
                                  IF req[p].reason # None THEN req[p].reason ELSE @])]
                /\ pc' = [pc EXCEPT ![p] = "saveLicenses"]
                /\ res' = res
    /\ UNCHANGED <<licFile, statsFile, now, req, stats,
                   accepted, fails, ticks, pre, prev, issuedKeys, mutated, revokedOK>>

\* loadStats() has resolved (the handler loads the stats only if wasActive).
RevokeStats(p) ==
    /\ pc[p] = "loadStats"
    /\ req[p].op = "revoke"
    /\ LET s == loadStats(statsFile)
       IN  stats' = [stats EXCEPT ![p] =
                       [s EXCEPT !.activeSubscriptions =
                                     Max(0, s.activeSubscriptions - 1)]]
    /\ pc' = [pc EXCEPT ![p] = "saveStats"]
    /\ UNCHANGED <<licFile, statsFile, now, req, licenses, wasActive, res,
                   accepted, fails, ticks, pre, prev, issuedKeys, mutated, revokedOK>>

(***************************************************************************)
(* POST /api/admin/delete-license                                          *)
(***************************************************************************)
DeleteLicense(p, licenseKey, max) ==
    /\ FreeSlot(p)
    /\ accepted < max
    /\ accepted' = accepted + 1
    /\ req' = [req EXCEPT ![p] = [NoReq EXCEPT !.op = "delete",
                                               !.licenseKey = licenseKey]]
    /\ IF licenseKey = None
       THEN /\ res' = [res EXCEPT ![p] =
                         [NoRes EXCEPT !.code = 400, !.error = "License key required"]]
            /\ pc' = [pc EXCEPT ![p] = "done"]
       ELSE /\ res' = res
            /\ pc' = [pc EXCEPT ![p] = "loadLicenses"]
    /\ mutated' = TRUE
    /\ issuedKeys' = <<>>
    /\ Accept(p)
    /\ UNCHANGED <<licFile, statsFile, now, licenses, stats, wasActive,
                   fails, ticks, revokedOK>>

\* Variant of DeleteLoaded without the 404 answer: an unknown key is deleted
\* like a known one.
DeleteLoaded_NoNotFound(p) ==
    /\ pc[p] = "loadLicenses"
    /\ req[p].op = "delete"
    /\ LET lics == loadLicenses(licFile)
           k == req[p].licenseKey
       IN  IF ~HasKey(lics, k)
           THEN /\ wasActive' = [wasActive EXCEPT ![p] = FALSE]
                /\ licenses' = [licenses EXCEPT ![p] = lics]
                /\ pc' = [pc EXCEPT ![p] = "saveLicenses"]
                /\ res' = res
           ELSE /\ wasActive' = [wasActive EXCEPT ![p] = Get(lics, k).status = "active"]
                /\ licenses' = [licenses EXCEPT ![p] = Remove(lics, k)]
                /\ pc' = [pc EXCEPT ![p] = "saveLicenses"]
                /\ res' = res
    /\ UNCHANGED <<licFile, statsFile, now, req, stats,
                   accepted, fails, ticks, pre, prev, issuedKeys, mutated, revokedOK>>

\* loadLicenses() has resolved.
DeleteLoaded(p) ==
    /\ pc[p] = "loadLicenses"
    /\ req[p].op = "delete"
    /\ LET lics == loadLicenses(licFile)
           k == req[p].licenseKey
       IN  IF ~HasKey(lics, k)
           THEN /\ res' = [res EXCEPT ![p] =
                             [NoRes EXCEPT !.code = 404, !.error = "License not found"]]
                /\ pc' = [pc EXCEPT ![p] = "done"]
                /\ UNCHANGED <<licenses, wasActive>>
           ELSE /\ wasActive' = [wasActive EXCEPT ![p] = Get(lics, k).status = "active"]
                /\ licenses' = [licenses EXCEPT ![p] = Remove(lics, k)]
                /\ pc' = [pc EXCEPT ![p] = "saveLicenses"]
                /\ res' = res
    /\ UNCHANGED <<licFile, statsFile, now, req, stats,
                   accepted, fails, ticks, pre, prev, issuedKeys, mutated, revokedOK>>

\* loadStats() has resolved.
DeleteStats(p) ==
    /\ pc[p] = "loadStats"
    /\ req[p].op = "delete"
    /\ LET s == loadStats(statsFile)
       IN  stats' = [stats EXCEPT ![p] =
                       [s EXCEPT !.totalSales = Max(0, s.totalSales - 1),
                                 !.activeSubscriptions =
                                     IF wasActive[p]
                                     THEN Max(0, s.activeSubscriptions - 1)
                                     ELSE @]]
    /\ pc' = [pc EXCEPT ![p] = "saveStats"]
    /\ UNCHANGED <<licFile, statsFile, now, req, licenses, wasActive, res,
                   accepted, fails, ticks, pre, prev, issuedKeys, mutated, revokedOK>>

(***************************************************************************)
(* saveLicenses() and saveStats(): fs.writeFile opens the file, which      *)
(* empties it, then writes the content.  The write can fail before or      *)
(* after the file was emptied.                                             *)
(***************************************************************************)
\* What a handler does when a write rejects: the webhook's try/catch answers
\* 500; the admin handlers have no try/catch and never answer.
WriteFailed(p) ==
    IF IsWebhook(req[p].op)
    THEN /\ pc' = [pc EXCEPT ![p] = "done"]
         /\ res' = [res EXCEPT ![p] =
                      [NoRes EXCEPT !.code = 500, !.error = "Webhook processing failed"]]
    ELSE /\ pc' = [pc EXCEPT ![p] = "hung"]
         /\ res' = res

SaveLicensesOpen(p) ==
    /\ pc[p] = "saveLicenses"
    /\ licFile' = Unparsable(<<>>)
    /\ pc' = [pc EXCEPT ![p] = "writingLicenses"]
    /\ UNCHANGED <<statsFile, now, req, licenses, stats, wasActive, res,
                   accepted, fails, ticks, pre, prev, issuedKeys, mutated, revokedOK>>

\* The write has completed; the handler goes on to its next await.
SaveLicensesDone(p) ==
    /\ pc[p] = "writingLicenses"
    /\ licFile' = File(licenses[p])
    /\ licenses' = [licenses EXCEPT ![p] = <<>>]
    /\ pc' = [pc EXCEPT ![p] =
                IF req[p].op = "revoke" /\ ~wasActive[p] THEN "email" ELSE "loadStats"]
    /\ UNCHANGED <<statsFile, now, req, stats, wasActive, res,
                   accepted, fails, ticks, pre, prev, issuedKeys, mutated, revokedOK>>

SaveLicensesFail(p) ==
    /\ pc[p] \in {"saveLicenses", "writingLicenses"}
    /\ fails < MaxFail
    /\ fails' = fails + 1
    /\ licenses' = [licenses EXCEPT ![p] = <<>>]
    /\ req' = [req EXCEPT ![p].failed = "saveLicenses"]
    /\ WriteFailed(p)
    /\ UNCHANGED <<licFile, statsFile, now, stats, wasActive,
                   accepted, ticks, pre, prev, issuedKeys, mutated, revokedOK>>

\* Variant of SaveStatsOpen in which the handler does not await the write:
\* it goes on while the file is still being written.
SaveStatsOpen_NotAwaited(p) ==
    /\ pc[p] = "saveStats"
    /\ statsFile' = Unparsable(ZeroStats)
    /\ stats' = [stats EXCEPT ![p] = ZeroStats]
    /\ IF req[p].op = "webhookCancel"
       THEN /\ pc' = [pc EXCEPT ![p] = "done"]
            /\ res' = [res EXCEPT ![p] = [NoRes EXCEPT !.code = 200]]
       ELSE /\ pc' = [pc EXCEPT ![p] = "email"]
            /\ res' = res
    /\ UNCHANGED <<licFile, now, req, licenses, wasActive,
                   accepted, fails, ticks, pre, prev, issuedKeys, mutated, revokedOK>>

SaveStatsOpen(p) ==
    /\ pc[p] = "saveStats"
    /\ statsFile' = Unparsable(ZeroStats)
    /\ pc' = [pc EXCEPT ![p] = "writingStats"]
    /\ UNCHANGED <<licFile, now, req, licenses, stats, wasActive, res,
                   accepted, fails, ticks, pre, prev, issuedKeys, mutated, revokedOK>>

\* The write has completed.  The cancel branch answers 200 at once; the
\* other handlers send an email first.
SaveStatsDone(p) ==
    /\ pc[p] = "writingStats"
    /\ statsFile' = File(stats[p])
    /\ stats' = [stats EXCEPT ![p] = ZeroStats]
    /\ IF req[p].op = "webhookCancel"
       THEN /\ pc' = [pc EXCEPT ![p] = "done"]
            /\ res' = [res EXCEPT ![p] = [NoRes EXCEPT !.code = 200]]
       ELSE /\ pc' = [pc EXCEPT ![p] = "email"]
            /\ res' = res
    /\ UNCHANGED <<licFile, now, req, licenses, wasActive,
                   accepted, fails, ticks, pre, prev, issuedKeys, mutated, revokedOK>>

SaveStatsFail(p) ==
    /\ pc[p] \in {"saveStats", "writingStats"}
    /\ fails < MaxFail
    /\ fails' = fails + 1
    /\ stats' = [stats EXCEPT ![p] = ZeroStats]
    /\ req' = [req EXCEPT ![p].failed = "saveStats"]
    /\ WriteFailed(p)
    /\ UNCHANGED <<licFile, statsFile, now, licenses, wasActive,
                   accepted, ticks, pre, prev, issuedKeys, mutated, revokedOK>>

(***************************************************************************)
(* The notification and the answer.  sendLicenseEmail, sendRevocationEmail *)
(* and sendDeletionEmail resolve to {sent: true} or {sent: false}; the     *)
(* handler answers after them.                                             *)
(***************************************************************************)
\* An issuance in flight, other than p's, that generated key k.
IssuingElsewhere(p, k) ==
    \E q \in Procs : q # p /\ InFlight(q) /\ IsIssue(req[q].op) /\ req[q].licenseKey = k

\* Variant of SendEmail in which an email that was not sent makes the
\* request fail.
SendEmail_FailurePropagates(p, sent) ==
    /\ pc[p] = "email"
    /\ pc' = [pc EXCEPT ![p] = "done"]
    /\ res' = [res EXCEPT ![p] =
                 CASE ~sent -> [NoRes EXCEPT !.code = 500, !.error = "Email failed"]
                   [] req[p].op = "webhookIssue" -> [NoRes EXCEPT !.code = 200]
                   [] req[p].op = "create" ->
                        [NoRes EXCEPT !.code = 200, !.success = TRUE,
                                      !.licenseKey = req[p].licenseKey,
                                      !.expiresAt = req[p].expiresAt,
                                      !.emailSent = sent]
                   [] OTHER -> [NoRes EXCEPT !.code = 200, !.success = TRUE]]
    /\ issuedKeys' = IF IsIssue(req[p].op) /\ ~mutated
                     THEN Append(issuedKeys, req[p].licenseKey) ELSE issuedKeys
    /\ revokedOK' = IF /\ req[p].op = "revoke"
                       /\ revokedOK[req[p].licenseKey] = "no"
                       /\ ~IssuingElsewhere(p, req[p].licenseKey)
                    THEN [revokedOK EXCEPT ![req[p].licenseKey] = "yes"]
                    ELSE revokedOK
    /\ UNCHANGED <<licFile, statsFile, now, req, licenses, stats, wasActive,
                   accepted, fails, ticks, pre, prev, mutated>>

SendEmail(p, sent) ==
    /\ pc[p] = "email"
    /\ pc' = [pc EXCEPT ![p] = "done"]
    /\ res' = [res EXCEPT ![p] =
                 CASE req[p].op = "webhookIssue" -> [NoRes EXCEPT !.code = 200]
                   [] req[p].op = "create" ->
                        [NoRes EXCEPT !.code = 200, !.success = TRUE,
                                      !.licenseKey = req[p].licenseKey,
                                      !.expiresAt = req[p].expiresAt,
                                      !.emailSent = sent]
                   [] OTHER -> [NoRes EXCEPT !.code = 200, !.success = TRUE]]
    /\ issuedKeys' = IF IsIssue(req[p].op) /\ ~mutated
                     THEN Append(issuedKeys, req[p].licenseKey) ELSE issuedKeys
    /\ revokedOK' = IF /\ req[p].op = "revoke"
                       /\ revokedOK[req[p].licenseKey] = "no"
                       /\ ~IssuingElsewhere(p, req[p].licenseKey)
                    THEN [revokedOK EXCEPT ![req[p].licenseKey] = "yes"]
                    ELSE revokedOK
    /\ UNCHANGED <<licFile, statsFile, now, req, licenses, stats, wasActive,
                   accepted, fails, ticks, pre, prev, mutated>>

\* The answer has been delivered (or the client gave up): the slot is free.
Finish(p) ==
    /\ pc[p] \in {"done", "hung"}
    /\ prev' = IF pre.taken /\ pre.owner = p
                    /\ (req[p].op = "revoke" \/ (IsIssue(req[p].op) /\ res[p].code = 200))
               THEN [NoPrev EXCEPT
                       !.op = req[p].op,
                       !.licenseKey = req[p].licenseKey,
                       !.code = res[p].code,
                       !.existed = /\ req[p].licenseKey # None
                                   /\ HasKey(loadLicenses(pre.licFile), req[p].licenseKey),
                       !.email = req[p].email,
                       !.subscriptionType = req[p].subscriptionType,
                       !.extensionId = req[p].extensionId,
                       !.wasActive = req[p].op = "revoke" /\ wasActive[p],
                       !.activeSubscriptions =
                           IF req[p].op = "revoke"
                           THEN loadStats(pre.statsFile).activeSubscriptions ELSE 0]
               ELSE NoPrev
    /\ pre' = IF pre.owner = p THEN NoSnapshot ELSE pre
    /\ pc' = [pc EXCEPT ![p] = "idle"]
    /\ req' = [req EXCEPT ![p] = NoReq]
    /\ res' = [res EXCEPT ![p] = NoRes]
    /\ licenses' = [licenses EXCEPT ![p] = <<>>]
    /\ stats' = [stats EXCEPT ![p] = ZeroStats]
    /\ wasActive' = [wasActive EXCEPT ![p] = FALSE]
    /\ UNCHANGED <<licFile, statsFile, now, accepted, fails, ticks,
                   issuedKeys, mutated, revokedOK>>

(***************************************************************************)
(* The wall clock advances by a calendar month.                            *)
(***************************************************************************)
Tick(t) ==
    /\ ticks < MaxTicks
    /\ now' = t
    /\ ticks' = ticks + 1
    /\ prev' = NoPrev
    /\ UNCHANGED <<licFile, statsFile, pc, req, licenses, stats, wasActive, res,
                   accepted, fails, pre, issuedKeys, mutated, revokedOK>>

\* The requests that arrive, with their parameters drawn from the sets of I.
Requests(p, I) ==
    \/ \E e \in EventTypes, r \in I.resources, b \in RandomBytes :
          WebhookActivated(p, e, r, b, I.max)
    \/ \E e \in EventTypes, r \in I.resources : WebhookCancelled(p, e, r, I.max)
    \/ \E e \in EventTypes : WebhookOther(p, e)
    \/ \E k \in I.keys, x \in I.extensionIds : Verify(p, k, x)
    \/ \E c \in I.creates, b \in RandomBytes :
          CreateLicense(p, c.email, c.subscriptionType, c.extensionName, b, I.max)
    \/ \E k \in I.keys, r \in I.reasons : RevokeLicense(p, k, r, I.max)
    \/ \E k \in I.keys : DeleteLicense(p, k, I.max)

\* A handler resumes after an await.
Steps(p) ==
    \/ WebhookIssueLoaded(p) \/ WebhookCancelLoaded(p) \/ VerifyLoaded(p)
    \/ CreateLoaded(p) \/ RevokeLoaded(p) \/ DeleteLoaded(p)
    \/ SaveLicensesOpen(p) \/ SaveLicensesDone(p)
    \/ WebhookIssueStats(p) \/ WebhookCancelStats(p)
    \/ CreateStats(p) \/ RevokeStats(p) \/ DeleteStats(p)
    \/ SaveStatsOpen(p) \/ SaveStatsDone(p)
    \/ \E sent \in BOOLEAN : SendEmail(p, sent)

\* A durable write fails.
Faults(p) == SaveLicensesFail(p) \/ SaveStatsFail(p)

TimePasses == Tick(calculateExpiry("monthly", now))

\* Requests of the concurrent specification.
ConcInputs ==
    [resources |-> {r \in Resources : r.id = "I-1"},
     creates |-> {[email |-> "b@x.com", subscriptionType |-> "annual",
                   extensionName |-> MyExtension]},
     keys |-> Keys,
     extensionIds |-> {ReplyBoltId},
     reasons |-> {None},
     max |-> MaxRequests]

\* Some request has been answered and its slot is not free yet.
Answered == \E p \in Procs : pc[p] \in {"done", "hung"}

\* Requests are handled concurrently, on a disk that does not fail, within
\* one day.  An answered request leaves before anything else happens.
Next == \E p \in Procs : (~Answered /\ Requests(p, ConcInputs)) \/ (~Answered /\ Steps(p)) \/ Finish(p)

Spec == Init /\ [][Next]_vars

\* Requests of the sequential specification.
SeqInputs ==
    [resources |-> {r \in Resources : r.email # None},
     creates |-> {c \in Creates : c.subscriptionType \in {"annual", "monthly"}},
     keys |-> Keys \cup {None},
     extensionIds |-> ExtensionIds,
     reasons |-> Reasons,
     max |-> MaxRequestsSeq]

\* Requests are sent one at a time, each after the answer to the one before,
\* within one day and on a disk that does not fail.
NextSeq ==
    \E p \in Procs : \/ (Quiescent /\ ~Answered /\ Requests(p, SeqInputs))
                     \/ Steps(p)
                     \/ Finish(p)

SpecSeq == Init /\ [][NextSeq]_vars

\* Requests of the specification with a clock.
ClockInputs ==
    [resources |-> Resources,
     creates |-> Creates,
     keys |-> Keys \cup {None},
     extensionIds |-> ExtensionIds,
     reasons |-> Reasons,
     max |-> MaxRequestsClock]

\* Requests are sent one at a time and the clock advances between them (a
\* request takes far less than the month the clock advances by).
NextClock ==
    \/ \E p \in Procs : \/ (Quiescent /\ ~Answered /\ Requests(p, ClockInputs))
                        \/ Steps(p)
                        \/ Finish(p)
    \/ (Quiescent /\ ~Answered /\ TimePasses)

SpecClock == Init /\ [][NextClock]_vars

\* Requests of the specification with failing writes.
FaultInputs == [ConcInputs EXCEPT !.max = MaxRequestsFault]

\* Requests are sent one at a time and durable writes can fail.
NextFault ==
    \E p \in Procs : \/ (Quiescent /\ ~Answered /\ Requests(p, FaultInputs))
                     \/ Steps(p)
                     \/ Faults(p)
                     \/ Finish(p)

SpecFault == Init /\ [][NextFault]_vars

(***************************************************************************)
(* Properties.                                                             *)
(***************************************************************************)
StoredLicenses == loadLicenses(licFile)
StoredStats == loadStats(statsFile)

\* Slot p holds an answered request of kind op.
Answers(p, op) == pc[p] = "done" /\ req[p].op = op

\* Slot p holds a request that started with no other request in flight: pre
\* holds the files it found.
RanAlone(p) == pre.taken /\ pre.owner = p

\* The records of lics whose payment reference is id.
Matching(lics, id) == {i \in 1..Len(lics) : lics[i].paypalSubscriptionId = id}

\* C1: at every quiescent point of a behaviour that starts from an empty
\* store with zeroed stats, the active count of the stats equals the number
\* of license records whose status is "active".
C1_ActiveCountMatchesStore ==
    Quiescent => StoredStats.activeSubscriptions = ActiveCount(StoredLicenses)

KeysDistinct(keys) ==
    \A i, j \in 1..Len(keys) : i # j => keys[i] # keys[j]

\* C2: when the issuances accepted so far (and nothing but issuances) have all
\* been answered, with distinct keys, totalSales is their number plus the
\* value it had before them, which is 0.
C2_ConcurrentIssuancesAllCounted ==
    (Quiescent /\ ~mutated /\ Len(issuedKeys) = accepted /\ KeysDistinct(issuedKeys))
        => StoredStats.totalSales = Len(issuedKeys)

\* C3: a verify that started after the revocation of its key was answered
\* with success, the key not having been generated again since, answers
\* valid = false.
C3_RevokedKeyNeverValid ==
    \A p \in Procs :
        (Answers(p, "verify") /\ req[p].afterRevoke
            /\ revokedOK[req[p].licenseKey] = "yes")
        => res[p].valid = FALSE

\* C4: when the write of the stats fails in a request, the license store is
\* as the request found it (a failed write leaves the prior state intact as a
\* whole: the store change is never persisted without its stats delta).
C4_StatsWriteFailureLeavesStoreIntact ==
    \A p \in Procs :
        (RanAlone(p) /\ req[p].failed = "saveStats") => licFile = pre.licFile

\* C5: verify with an extension id that differs from the one of the stored
\* record answers valid = false with the product-mismatch reason, whatever
\* the record's status and whether or not it has expired.
C5_ProductMismatchAlwaysRejected ==
    \A p \in Procs :
        (/\ Answers(p, "verify")
         /\ req[p].licenseKey # None
         /\ req[p].extensionId # NoStr
         /\ HasKey(StoredLicenses, req[p].licenseKey)
         /\ Get(StoredLicenses, req[p].licenseKey).extensionId # req[p].extensionId)
        => /\ res[p].valid = FALSE
           /\ res[p].error = "This license is for a different extension"

\* C5 happens: the mismatch answer for a cancelled record that has expired.
C5_Witness ==
    \E p \in Procs :
        /\ Answers(p, "verify")
        /\ req[p].licenseKey # None
        /\ HasKey(StoredLicenses, req[p].licenseKey)
        /\ LET license == Get(StoredLicenses, req[p].licenseKey)
           IN  /\ license.status = "cancelled"
               /\ now >= license.expiresAt
               /\ license.extensionId # req[p].extensionId
        /\ res[p].error = "This license is for a different extension"

\* C6: a verify that follows an issuance at once, with the issued key and the
\* extension id of the issued record, answers valid = true with the email and
\* the subscription class of the issuance, for monthly, annual and lifetime
\* and for the webhook and create-license.
C6_IssueThenVerifyValid ==
    \A p \in Procs :
        (/\ Answers(p, "verify")
         /\ RanAlone(p)
         /\ IsIssue(prev.op)
         /\ prev.subscriptionType \in SubscriptionTypes
         /\ req[p].licenseKey = prev.licenseKey
         /\ req[p].extensionId = prev.extensionId)
        => /\ res[p].valid = TRUE
           /\ res[p].email = prev.email
           /\ res[p].subscriptionType = prev.subscriptionType

\* C6 happens: a lifetime license issued by the webhook is verified at once.
C6_Witness ==
    \E p \in Procs :
        /\ Answers(p, "verify")
        /\ RanAlone(p)
        /\ prev.op = "webhookIssue"
        /\ prev.subscriptionType = "lifetime"
        /\ req[p].licenseKey = prev.licenseKey
        /\ req[p].extensionId = prev.extensionId
        /\ res[p].valid = TRUE
        /\ res[p].subscriptionType = "lifetime"

\* The decrement the handlers apply to a counter.
Decremented(n) == Max(0, n - 1)

TheMatch(lics, id) == CHOOSE i \in Matching(lics, id) : TRUE

Statuses(lics) == [i \in 1..Len(lics) |-> lics[i].status]

\* C8: a cancel event for the reference of a record that is not active is
\* answered with success, leaves the status of every record as it was and
\* does not decrement the active count.
C8_CancelNonActiveChangesNothing ==
    \A p \in Procs :
        (/\ Answers(p, "webhookCancel")
         /\ RanAlone(p)
         /\ LET found == loadLicenses(pre.licFile)
                m == Matching(found, req[p].subscriptionId)
            IN  /\ Cardinality(m) = 1
                /\ found[TheMatch(found, req[p].subscriptionId)].status # "active")
        => /\ res[p].code = 200
           /\ Statuses(StoredLicenses) = Statuses(loadLicenses(pre.licFile))
           /\ StoredStats.activeSubscriptions
                  = loadStats(pre.statsFile).activeSubscriptions

\* C9: a cancel event whose reference matches no record is answered with
\* success and leaves the license store and the three stats fields as they
\* were.
C9_CancelUnknownReferenceIsNoOp ==
    \A p \in Procs :
        (/\ Answers(p, "webhookCancel")
         /\ RanAlone(p)
         /\ Matching(loadLicenses(pre.licFile), req[p].subscriptionId) = {})
        => /\ res[p].code = 200
           /\ licFile = pre.licFile
           /\ statsFile = pre.statsFile

\* C10: a cancel event whose reference matches one record, which is active,
\* sets its status to "cancelled", stamps its cancellation time, decrements
\* the active count by one and changes no other record nor totalSales nor
\* the revenue.
C10_CancelActiveRecord ==
    \A p \in Procs :
        (/\ Answers(p, "webhookCancel")
         /\ RanAlone(p)
         /\ LET found == loadLicenses(pre.licFile)
                m == Matching(found, req[p].subscriptionId)
            IN  /\ Cardinality(m) = 1
                /\ found[TheMatch(found, req[p].subscriptionId)].status = "active")
        => LET found == loadLicenses(pre.licFile)
               i == TheMatch(found, req[p].subscriptionId)
               before == loadStats(pre.statsFile)
           IN  /\ res[p].code = 200
               /\ StoredLicenses = [found EXCEPT ![i].status = "cancelled",
                                                 ![i].cancelledAt = now]
               /\ StoredStats = [before EXCEPT !.activeSubscriptions = @ - 1]

\* C11: a revocation of an existing key sets the record's status to
\* "revoked", stamps the revocation time and, when one is given, the reason;
\* the active count goes down by exactly one if the record was active before
\* the call and stays as it was otherwise; totalSales and the revenue stay as
\* they were.
C11_RevokeExistingKey ==
    \A p \in Procs :
        (/\ Answers(p, "revoke")
         /\ RanAlone(p)
         /\ req[p].licenseKey # None
         /\ HasKey(loadLicenses(pre.licFile), req[p].licenseKey))
        => LET found == loadLicenses(pre.licFile)
               k == req[p].licenseKey
               before == loadStats(pre.statsFile)
           IN  /\ res[p].code = 200
               /\ res[p].success
               /\ StoredLicenses =
                      Put(found, k,
                          [Get(found, k) EXCEPT
                              !.status = "revoked",
                              !.revokedAt = now,
                              !.revocationReason =
                                  IF req[p].reason # None THEN req[p].reason ELSE @])
               /\ StoredStats =
                      [before EXCEPT !.activeSubscriptions =
                                         IF Get(found, k).status = "active"
                                         THEN @ - 1 ELSE @]

\* C12: a revocation of a record that is already revoked is answered with
\* success and stamps the revocation time and the revocation reason of this
\* call: the stored reason is the one the call gives, and none when the call
\* gives none.
C12_RevokeAgainLastWriteWins ==
    \A p \in Procs :
        (/\ Answers(p, "revoke")
         /\ RanAlone(p)
         /\ req[p].licenseKey # None
         /\ HasKey(loadLicenses(pre.licFile), req[p].licenseKey)
         /\ Get(loadLicenses(pre.licFile), req[p].licenseKey).status = "revoked")
        => /\ res[p].code = 200
           /\ res[p].success
           /\ HasKey(StoredLicenses, req[p].licenseKey)
           /\ LET license == Get(StoredLicenses, req[p].licenseKey)
              IN  /\ license.status = "revoked"
                  /\ license.revokedAt = now
                  /\ license.revocationReason = req[p].reason

\* C13: the deletion of an existing key removes its record, takes one from
\* totalSales, takes one from the active count if and only if the record was
\* active, and leaves every other record and the revenue as they were.
C13_DeleteExistingKey ==
    \A p \in Procs :
        (/\ Answers(p, "delete")
         /\ RanAlone(p)
         /\ req[p].licenseKey # None
         /\ HasKey(loadLicenses(pre.licFile), req[p].licenseKey))
        => LET found == loadLicenses(pre.licFile)
               k == req[p].licenseKey
               before == loadStats(pre.statsFile)
           IN  /\ res[p].code = 200
               /\ res[p].success
               /\ StoredLicenses = Remove(found, k)
               /\ StoredStats =
                      [before EXCEPT !.totalSales = @ - 1,
                                     !.activeSubscriptions =
                                         IF Get(found, k).status = "active"
                                         THEN @ - 1 ELSE @]

\* C14: a revocation or a deletion of a key that the store does not hold is
\* answered 404 "License not found" and changes nothing: the license store
\* and the stats are after the call what they were before it.
C14_UnknownKeyNotFound ==
    \A p \in Procs :
        (/\ Answers(p, "revoke") \/ Answers(p, "delete")
         /\ RanAlone(p)
         /\ req[p].licenseKey # None
         /\ ~HasKey(loadLicenses(pre.licFile), req[p].licenseKey))
        => /\ res[p].code = 404
           /\ res[p].error = "License not found"
           /\ ~res[p].success
           /\ licFile = pre.licFile
           /\ statsFile = pre.statsFile

\* C14 happens: a deletion is answered 404 while the store holds a record of
\* another key and the stats count it.
C14_Witness ==
    \E p \in Procs :
        /\ Answers(p, "delete")
        /\ RanAlone(p)
        /\ req[p].licenseKey # None
        /\ ~HasKey(loadLicenses(pre.licFile), req[p].licenseKey)
        /\ Len(loadLicenses(pre.licFile)) = 1
        /\ loadStats(pre.statsFile).totalSales = 1
        /\ res[p].code = 404

\* C15: a create-license request whose subscription type is none of monthly,
\* annual and lifetime is refused with a 400 and changes neither the license
\* store nor the stats.
C15_UnknownSubscriptionTypeRefused ==
    \A p \in Procs :
        (/\ Answers(p, "create")
         /\ RanAlone(p)
         /\ req[p].subscriptionType \notin SubscriptionTypes)
        => /\ res[p].code = 400
           /\ licFile = pre.licFile
           /\ statsFile = pre.statsFile

\* C16: an issuance without an email is refused before anything is written,
\* through create-license and through the webhook alike: the store never
\* holds a record without an email, and a create-license request without one
\* is answered 400 with the store and the stats as they were.
C16_MissingEmailRefused ==
    /\ \A i \in 1..Len(StoredLicenses) : StoredLicenses[i].email # None
    /\ \A p \in Procs :
          (Answers(p, "create") /\ RanAlone(p) /\ res[p].code = 400)
          => (licFile = pre.licFile /\ statsFile = pre.statsFile)

\* C17: an issuance never overwrites a record: after an issuance answered
\* with success the store holds the records it held before, unchanged, and
\* exactly one more.
C17_IssueNeverOverwrites ==
    \A p \in Procs :
        (/\ Answers(p, "webhookIssue") \/ Answers(p, "create")
         /\ RanAlone(p)
         /\ res[p].code = 200)
        => LET found == loadLicenses(pre.licFile)
           IN  /\ Len(StoredLicenses) = Len(found) + 1
               /\ SubSeq(StoredLicenses, 1, Len(found)) = found

\* C18: every issuance answered with success, by the webhook or by
\* create-license, leaves a record of its key with status "active", adds one
\* to totalSales, one to the active count and the price of the subscription
\* type (the amount of the payment event when the event states one) to the
\* revenue.
C18_IssueCountsAndRevenue ==
    \A p \in Procs :
        (/\ Answers(p, "webhookIssue") \/ Answers(p, "create")
         /\ RanAlone(p)
         /\ res[p].code = 200)
        => LET before == loadStats(pre.statsFile)
               price == IF req[p].amount # NoAmount THEN req[p].amount
                        ELSE Price(req[p].subscriptionType)
           IN  /\ HasKey(StoredLicenses, req[p].licenseKey)
               /\ Get(StoredLicenses, req[p].licenseKey).status = "active"
               /\ StoredStats =
                      [totalSales |-> before.totalSales + 1,
                       activeSubscriptions |-> before.activeSubscriptions + 1,
                       monthlyRevenue |-> before.monthlyRevenue + price]

\* C19: the expiry of every stored record is later than its creation time and
\* follows from its subscription type: monthly, the same date one calendar
\* month later (the days the next month lacks run over into the month after
\* it, as Date.setMonth counts); annual, the same date and month one year
\* later; lifetime, the same date and month 100 years later.
C19_ExpiryFollowsSubscriptionType ==
    \A i \in 1..Len(StoredLicenses) :
        LET license == StoredLicenses[i]
            created == license.createdAt
            expires == license.expiresAt
        IN  /\ expires > created
            /\ license.subscriptionType = "monthly" =>
                   expires = MakeDay(YearOf(created), MonthOf(created) + 1, 1)
                                 + (DateOf(created) - 1)
            /\ license.subscriptionType = "annual" =>
                   /\ YearOf(expires) = YearOf(created) + 1
                   /\ MonthOf(expires) = MonthOf(created)
                   /\ DateOf(expires) = DateOf(created)
            /\ license.subscriptionType = "lifetime" =>
                   /\ YearOf(expires) = YearOf(created) + 100
                   /\ MonthOf(expires) = MonthOf(created)
                   /\ DateOf(expires) = DateOf(created)

\* C19 happens: the store holds an annual record issued after the clock has
\* advanced, next to a monthly one issued on 31 January, which expires on
\* 2 March.
C19_Witness ==
    /\ Quiescent
    /\ \E i, j \in 1..Len(StoredLicenses) :
          /\ StoredLicenses[i].subscriptionType = "monthly"
          /\ StoredLicenses[i].createdAt = StartDay
          /\ StoredLicenses[i].expiresAt = MakeDay(BaseYear, 3, 2)
          /\ StoredLicenses[j].subscriptionType = "annual"
          /\ StoredLicenses[j].createdAt > StartDay

\* The part of a license record that is set once: product identifier, owner
\* email, subscription type and expiry.
Identity(license) ==
    <<license.extensionId, license.extensionName, license.email,
      license.subscriptionType, license.expiresAt>>

\* C20: no request changes the product identifier, the owner email, the
\* subscription type or the expiry of a record: a key that the store holds
\* before and after a request has the same ones after it as before it.
C20_RecordIdentityImmutable ==
    \A p \in Procs :
        (pc[p] = "done" /\ RanAlone(p))
        => LET found == loadLicenses(pre.licFile)
           IN  \A i \in 1..Len(found) :
                   HasKey(StoredLicenses, found[i].key)
                   => Identity(Get(StoredLicenses, found[i].key)) = Identity(found[i])

\* C21: a verification changes nothing, whatever it is asked and whatever it
\* answers: the license store and the stats are after it what they were
\* before it.  An expired license keeps the status "active" in the store and
\* stays in the active count.
C21_VerifyChangesNothing ==
    \A p \in Procs :
        (Answers(p, "verify") /\ RanAlone(p))
        => /\ licFile = pre.licFile
           /\ statsFile = pre.statsFile

\* C21 happens: the verification of a license that has expired is answered
\* valid = false, and the record is still "active" and counted.
C21_Witness ==
    \E p \in Procs :
        /\ Answers(p, "verify")
        /\ RanAlone(p)
        /\ req[p].licenseKey # None
        /\ HasKey(StoredLicenses, req[p].licenseKey)
        /\ LET license == Get(StoredLicenses, req[p].licenseKey)
           IN  /\ license.extensionId = req[p].extensionId
               /\ license.status = "active"
               /\ now >= license.expiresAt
        /\ res[p].valid = FALSE
        /\ StoredStats.activeSubscriptions = 1

\* Slot p holds an answered verification of a key that the store holds, with
\* the extension id of its record.
VerifiedMatching(p) ==
    /\ Answers(p, "verify")
    /\ req[p].licenseKey # None
    /\ req[p].extensionId # NoStr
    /\ HasKey(StoredLicenses, req[p].licenseKey)
    /\ Get(StoredLicenses, req[p].licenseKey).extensionId = req[p].extensionId

\* C22: the verification of an active license whose expiry is the current
\* time or earlier answers valid = false and gives a reason (the license has
\* expired).
C22_ExpiredGivesReason ==
    \A p \in Procs :
        (/\ VerifiedMatching(p)
         /\ Get(StoredLicenses, req[p].licenseKey).status = "active"
         /\ Get(StoredLicenses, req[p].licenseKey).expiresAt <= now)
        => /\ res[p].valid = FALSE
           /\ res[p].error # None

\* C23: the verification of a license whose status is not "active" answers
\* valid = false and gives a reason (the license is cancelled or revoked),
\* also when its expiry is still ahead.
C23_NonActiveGivesReason ==
    \A p \in Procs :
        (/\ VerifiedMatching(p)
         /\ Get(StoredLicenses, req[p].licenseKey).status # "active"
         /\ now < Get(StoredLicenses, req[p].licenseKey).expiresAt)
        => /\ res[p].valid = FALSE
           /\ res[p].error # None

\* C24: the verification of a key that the store does not hold is answered,
\* with status 200, valid = false and the reason "Invalid license key",
\* whatever extension id it gives: the key is looked up before the extension
\* id is compared.
C24_UnknownKeyBeforeProduct ==
    \A p \in Procs :
        (/\ Answers(p, "verify")
         /\ req[p].licenseKey # None
         /\ req[p].extensionId # NoStr
         /\ ~HasKey(StoredLicenses, req[p].licenseKey))
        => /\ res[p].code = 200
           /\ res[p].valid = FALSE
           /\ res[p].error = "Invalid license key"

\* C24 happens: an unknown key is verified with an extension id that no
\* stored license bears.
C24_Witness ==
    \E p \in Procs :
        /\ Answers(p, "verify")
        /\ req[p].licenseKey # None
        /\ ~HasKey(StoredLicenses, req[p].licenseKey)
        /\ Len(StoredLicenses) = 1
        /\ req[p].extensionId # NoStr
        /\ StoredLicenses[1].extensionId # req[p].extensionId
        /\ res[p].error = "Invalid license key"

\* C25: a request in which a write of a file has failed is answered, and with
\* an error: it is never left without an answer and never answered with
\* success.
C25_WriteFailureAnswered ==
    \A p \in Procs :
        req[p].failed # None
        => /\ pc[p] = "done"
           /\ res[p].code >= 500
           /\ ~res[p].success

\* C26: whether the email was sent or not, the request that sends it is
\* answered with success (status 200) and the email step leaves the license
\* store and the stats as the request wrote them.
C26_EmailFailureNotPropagated ==
    [][\A p \in Procs :
          (pc[p] = "email" /\ pc'[p] = "done")
          => /\ res'[p].code = 200
             /\ req[p].op # "webhookIssue" => res'[p].success
             /\ licFile' = licFile
             /\ statsFile' = statsFile]_vars

\* C26 happens: a create-license request whose email was not sent is answered
\* with success, and its record and its count are in the files.
C26_Witness ==
    \E p \in Procs :
        /\ Answers(p, "create")
        /\ RanAlone(p)
        /\ res[p].code = 200
        /\ res[p].success
        /\ ~res[p].emailSent
        /\ HasKey(StoredLicenses, req[p].licenseKey)
        /\ StoredStats.totalSales = loadStats(pre.statsFile).totalSales + 1

\* C27: totalSales goes down only by a deletion, and then by one: a handler
\* that replaces the stats file writes a totalSales that is at least the one
\* the file holds, or, for a deletion, exactly one less.
C27_TotalSalesMonotone ==
    [][\A p \in Procs :
          (pc[p] = "saveStats" /\ pc'[p] = "writingStats" /\ statsFile.parsable)
          => \/ stats[p].totalSales >= statsFile.content.totalSales
             \/ /\ req[p].op = "delete"
                /\ stats[p].totalSales = statsFile.content.totalSales - 1]_vars

\* C28: a verification that gives a license key and no extension id, for a
\* license that is active and has not expired, answers valid = true with the
\* license's email, expiry and subscription type.
C28_VerifyWithKeyOnly ==
    \A p \in Procs :
        (/\ Answers(p, "verify")
         /\ req[p].licenseKey # None
         /\ req[p].extensionId = NoStr
         /\ HasKey(StoredLicenses, req[p].licenseKey)
         /\ Get(StoredLicenses, req[p].licenseKey).status = "active"
         /\ now < Get(StoredLicenses, req[p].licenseKey).expiresAt)
        => LET license == Get(StoredLicenses, req[p].licenseKey)
           IN  /\ res[p].valid = TRUE
               /\ res[p].email = license.email
               /\ res[p].expiresAt = license.expiresAt
               /\ res[p].subscriptionType = license.subscriptionType

\* Places of the hyphens and of the hexadecimal characters in a key.
HyphenPlaces == {3, 8, 13, 18}
HexPlaces == <<4, 5, 6, 7, 9, 10, 11, 12, 14, 15, 16, 17, 19, 20, 21, 22>>

HexValue(c) == CHOOSE n \in 0..15 : HexDigits[n + 1] = c

\* chars is RB-XXXX-XXXX-XXXX-XXXX, its sixteen X the uppercase hexadecimal
\* digits of the eight bytes, in order.
WellFormedKey(chars, bytes) ==
    /\ Len(chars) = 22
    /\ chars[1] = "R" /\ chars[2] = "B"
    /\ \A i \in HyphenPlaces : chars[i] = "-"
    /\ \A i \in 1..16 : \E n \in 1..16 : chars[HexPlaces[i]] = HexDigits[n]
    /\ \A i \in 1..8 :
          16 * HexValue(chars[HexPlaces[2 * i - 1]]) + HexValue(chars[HexPlaces[2 * i]])
              = bytes[i]

\* C29: every key an issuance generates is "RB" and four groups of four
\* uppercase hexadecimal characters, separated by hyphens, and its sixteen
\* hexadecimal characters are those of the random bytes.
C29_KeyFormat ==
    \A p \in Procs :
        (IsIssue(req[p].op) /\ req[p].licenseKey # None)
        => \E b \in RandomBytes :
               /\ req[p].licenseKey = Join(licenseKeyChars(b))
               /\ WellFormedKey(licenseKeyChars(b), b)

\* C29 happens: a record is stored under the key of the bytes
\* 00 01 02 03 04 05 06 FF.
C29_Witness ==
    \E i \in 1..Len(StoredLicenses) :
        /\ StoredLicenses[i].key = "RB-0001-0203-0405-06FF"
        /\ StoredLicenses[i].key = generateLicenseKey(<<0, 1, 2, 3, 4, 5, 6, 255>>)

\* Slot p holds an issuance, a cancel, a revocation or a deletion that has
\* read a file and has not completed its last write.
InCriticalSection(p) ==
    /\ req[p].op \in {"webhookIssue", "create", "webhookCancel", "revoke", "delete"}
    /\ pc[p] \in {"saveLicenses", "writingLicenses", "loadStats",
                  "saveStats", "writingStats"}

\* C30: an issuance, a cancel, a revocation or a deletion is alone between
\* its first read of a file and its last write: no two of them are there at
\* the same time.
C30_MutationsAreCriticalSections ==
    \A p, q \in Procs :
        (p # q /\ InCriticalSection(p)) => ~InCriticalSection(q)

\* Slot p holds a revocation or a deletion of key k that found the record
\* active (wasActive) and has not completed the decrement it owes for it.
HoldsActive(p, k) ==
    /\ req[p].op \in {"revoke", "delete"}
    /\ req[p].licenseKey = k
    /\ wasActive[p]
    /\ pc[p] \in {"saveLicenses", "writingLicenses", "loadStats",
                  "saveStats", "writingStats"}

\* C31: the active-ness of a license is captured together with the read of
\* its status by one operation only: while a revocation holds a license as
\* found active, no concurrent deletion of the same license holds it as
\* found active too, so one decrement is applied for it.
C31_ActiveCapturedOnce ==
    \A p, q \in Procs : \A k \in Keys :
        (p # q /\ req[p].op = "revoke" /\ HoldsActive(p, k))
            => ~(req[q].op = "delete" /\ HoldsActive(q, k))

\* C32: when an issuance, a cancel, a revocation or a deletion that ran with
\* no other request in flight answers with success, no write is in progress
\* and both files hold its result: the record it wrote or removed, and the
\* counters it computed from the stats it found.
C32_SuccessAfterBothWrites ==
    \A p \in Procs :
        (/\ pc[p] = "done"
         /\ req[p].op \in {"webhookIssue", "create", "webhookCancel", "revoke", "delete"}
         /\ res[p].code = 200
         /\ RanAlone(p))
        => LET before == loadLicenses(pre.licFile)
               found == loadStats(pre.statsFile)
               k == req[p].licenseKey
           IN  /\ licFile.parsable
               /\ statsFile.parsable
               /\ IsIssue(req[p].op) =>
                     /\ HasKey(StoredLicenses, k)
                     /\ StoredStats.totalSales = found.totalSales + 1
                     /\ StoredStats.activeSubscriptions = found.activeSubscriptions + 1
               /\ req[p].op = "webhookCancel" =>
                     /\ StoredLicenses = CancelFirst(before, req[p].subscriptionId, now)
                     /\ StoredStats.activeSubscriptions =
                            Max(0, found.activeSubscriptions - 1)
               /\ req[p].op = "revoke" =>
                     /\ HasKey(StoredLicenses, k)
                     /\ Get(StoredLicenses, k).status = "revoked"
                     /\ StoredStats.activeSubscriptions =
                            IF wasActive[p] THEN Max(0, found.activeSubscriptions - 1)
                            ELSE found.activeSubscriptions
               /\ req[p].op = "delete" =>
                     /\ ~HasKey(StoredLicenses, k)
                     /\ StoredStats.totalSales = Max(0, found.totalSales - 1)

\* A deletion of a stored license has answered with success.
C32_Witness ==
    \E p \in Procs :
        /\ Answers(p, "delete")
        /\ res[p].code = 200
        /\ RanAlone(p)
        /\ HasKey(loadLicenses(pre.licFile), req[p].licenseKey)

\* License key k, checked for product extensionId at time t, is valid in lics.
ValidIn(lics, k, extensionId, t) ==
    /\ HasKey(lics, k)
    /\ VerifyResult(lics, k, extensionId, t).valid

\* C33: a verify never takes a license store that is being written for an
\* empty one: if it reads while another operation, which targets another
\* key, is writing a collection in which the verified license is active,
\* unexpired and of the supplied product, the verify reports it as valid.
C33_VerifySeesWholeStore ==
    \A p, q \in Procs :
        (/\ Answers(p, "verify")
         /\ req[p].licenseKey # None
         /\ q # p
         /\ pc[q] = "writingLicenses"
         /\ req[q].op \in {"webhookIssue", "create", "revoke", "delete"}
         /\ req[q].licenseKey # req[p].licenseKey
         /\ ValidIn(licenses[q], req[p].licenseKey, req[p].extensionId, now))
        => res[p].valid

\* C34: no two stored license records share a payment reference
\* (paypalSubscriptionId) that is not null.
C34_PaymentReferenceUnique ==
    \A i, j \in 1..Len(StoredLicenses) :
        (i # j /\ StoredLicenses[i].paypalSubscriptionId # None)
        => StoredLicenses[i].paypalSubscriptionId # StoredLicenses[j].paypalSubscriptionId

\* Product names the canonicalization is applied to besides the stored ones.
SampleNames ==
    ExtensionNames \cup
    { <<"B","i","d","L","a","n","c","e","r">>,
      <<"a","B"," "," ","C","d","E">>,
      <<" ","x","\t"," ","Y","Z"," ">>,
      MyExtensionId }

\* s is lowercase and holds no whitespace.
IsSlug(s) == \A i \in 1..Len(s) : ~IsUpper(s[i]) /\ ~IsSpace(s[i])

\* The slug of every sample name is lowercase without whitespace and is its
\* own slug, and the slug of "My Extension" is "my-extension".
SamplesCanonical ==
    /\ \A n \in SampleNames :
          /\ IsSlug(generateExtensionId(n))
          /\ generateExtensionId(generateExtensionId(n)) = generateExtensionId(n)
    /\ generateExtensionId(MyExtension) = MyExtensionId

LegacyLicense(bytes, email, extensionName) ==
    [key |-> generateLicenseKey(bytes),
     email |-> email,
     subscriptionId |-> "I-1",
     subscriptionType |-> "monthly",
     status |-> "active",
     createdAt |-> StartDay,
     expiresAt |-> calculateExpiry("monthly", StartDay),
     paypalSubscriptionId |-> "I-1",
     manual |-> FALSE,
     extensionName |-> extensionName,
     extensionId |-> NoStr,
     cancelledAt |-> NoTime,
     revokedAt |-> NoTime,
     revocationReason |-> None]

LegacyLicenses ==
    << LegacyLicense(<<171, 205, 18, 52, 86, 120, 154, 188>>, "a@x.com", NoStr),
       LegacyLicense(<<0, 1, 2, 3, 4, 5, 6, 255>>, "b@x.com", MyExtension) >>

\* The store holds one of the legacy records, and the stats count it.
InitLegacy ==
    /\ \E l \in 1..Len(LegacyLicenses) : licFile = File(<<LegacyLicenses[l]>>)
    /\ statsFile = File([totalSales |-> 1,
                         monthlyRevenue |-> Price("monthly"),
                         activeSubscriptions |-> 1])
    /\ now = StartDay
    /\ pc = [p \in Procs |-> "idle"]
    /\ req = [p \in Procs |-> NoReq]
    /\ licenses = [p \in Procs |-> <<>>]
    /\ stats = [p \in Procs |-> ZeroStats]
    /\ wasActive = [p \in Procs |-> FALSE]
    /\ res = [p \in Procs |-> NoRes]
    /\ accepted = 0
    /\ fails = 0
    /\ ticks = 0
    /\ pre = NoSnapshot
    /\ prev = NoPrev
    /\ issuedKeys = <<>>
    /\ mutated = FALSE
    /\ revokedOK = [k \in Keys |-> "no"]

LegacyInputs ==
    [resources |-> {r \in Resources : r.email # None},
     creates |-> {c \in Creates : c.subscriptionType \in {"annual", "monthly"}},
     keys |-> Keys \cup {None},
     extensionIds |-> ExtensionIds,
     reasons |-> Reasons,
     max |-> MaxRequestsLegacy]

\* Requests arrive at any time, as in Next.
NextLegacy ==
    \E p \in Procs : \/ (~Answered /\ Requests(p, LegacyInputs))
                     \/ (~Answered /\ Steps(p))
                     \/ Finish(p)

SpecLegacy == InitLegacy /\ [][NextLegacy]_vars

\* The error of a verify whose extensionId is not the one the license bears.
ProductMismatch == "This license is for a different extension"

\* C36: a verify of a stored record that has no extensionId binds to the slug
\* of the record's extensionName, and to "reply-bolt" when the record has no
\* extensionName: with any other extensionId the answer is the product
\* mismatch, with that one it is not, and the verify leaves the license file
\* as it found it (the slug is not written to the record).
C36_LegacyBindsToNameSlug ==
    \A p \in Procs :
        (/\ Answers(p, "verify")
         /\ req[p].licenseKey # None
         /\ req[p].extensionId # NoStr
         /\ RanAlone(p)
         /\ HasKey(loadLicenses(pre.licFile), req[p].licenseKey)
         /\ Get(loadLicenses(pre.licFile), req[p].licenseKey).extensionId = NoStr)
        => LET license == Get(loadLicenses(pre.licFile), req[p].licenseKey)
               bound == IF license.extensionName = NoStr THEN ReplyBoltId
                        ELSE generateExtensionId(license.extensionName)
           IN  /\ req[p].extensionId # bound =>
                     ~res[p].valid /\ res[p].error = ProductMismatch
               /\ req[p].extensionId = bound => res[p].error # ProductMismatch
               /\ licFile = pre.licFile
               /\ Get(StoredLicenses, req[p].licenseKey).extensionId = NoStr

\* A verify of the record that has neither extensionId nor extensionName has
\* answered valid for "reply-bolt", and would be a mismatch for another id.
C36_Witness ==
    \E p \in Procs :
        /\ Answers(p, "verify")
        /\ res[p].valid
        /\ req[p].extensionId = ReplyBoltId
        /\ HasKey(StoredLicenses, req[p].licenseKey)
        /\ Get(StoredLicenses, req[p].licenseKey).extensionId = NoStr
        /\ Get(StoredLicenses, req[p].licenseKey).extensionName = NoStr

\* C37: once a deletion has succeeded, the store holds no record for its key
\* that a revocation or a cancel has written: the only record the key can
\* have is the active one of a new issuance.
C37_DeletedStaysDeleted ==
    \A p \in Procs :
        (/\ Answers(p, "delete")
         /\ res[p].code = 200
         /\ licFile.parsable
         /\ HasKey(StoredLicenses, req[p].licenseKey))
        => Get(StoredLicenses, req[p].licenseKey).status = "active"

\* license is a record that p's operation targets.
TargetedBy(p, license) ==
    IF req[p].op = "webhookCancel"
    THEN license.paypalSubscriptionId = req[p].subscriptionId
    ELSE license.key = req[p].licenseKey

\* C38: an issuance, a cancel or a revocation removes no record and alters
\* none but its target: a record that was in the store before the operation
\* (since the server started), that is still there when the operation starts
\* writing the license file and that the operation does not target (an
\* issuance targets the new key it generated) is, unchanged, in the
\* collection it writes.
C38_OthersKept ==
    [][\A p \in Procs :
          (/\ req[p].op \in {"webhookIssue", "create", "webhookCancel", "revoke"}
           /\ pc[p] = "saveLicenses"
           /\ pc'[p] = "writingLicenses"
           /\ licFile.parsable
           /\ IsIssue(req[p].op) => ~HasKey(licFile.content, req[p].licenseKey))
          => \A i \in 1..Len(licFile.content) :
                 \/ TargetedBy(p, licFile.content[i])
                 \/ \A l \in 1..Len(LegacyLicenses) :
                        LegacyLicenses[l] # licFile.content[i]
                 \/ \E j \in 1..Len(licenses[p]) :
                        licenses[p][j] = licFile.content[i]]_vars

\* C39: in every reachable state totalSales and activeSubscriptions are at
\* least zero, in the stats file and in the stats every handler holds.
C39_CountersNotNegative ==
    /\ StoredStats.totalSales >= 0
    /\ StoredStats.activeSubscriptions >= 0
    /\ \A p \in Procs : stats[p].totalSales >= 0 /\ stats[p].activeSubscriptions >= 0

\* A cancel that found the active count at zero has answered, and the count
\* is zero.
C39_Witness ==
    \E p \in Procs :
        /\ Answers(p, "webhookCancel")
        /\ RanAlone(p)
        /\ pre.statsFile.parsable
        /\ pre.statsFile.content.activeSubscriptions = 0
        /\ statsFile.parsable
        /\ StoredStats.activeSubscriptions = 0
====
